---- MODULE Spec2Model ----
(***************************************************************************)
(* Model of the tower-stacking game "Neboskreb" (React component App).     *)
(*                                                                         *)
(* State is the component's useState / useRef cells.  React commits the    *)
(* state updates queued by an event handler before the next event is       *)
(* dispatched, so one handler invocation together with its commit is one   *)
(* atomic step, and every handler reads the values of the last commit.     *)
(* A setTimeout callback is a step of its own; it reads the values its     *)
(* closure captured when the timer was scheduled.                          *)
(*                                                                         *)
(* Positions and widths are percentages.  The hook position is a float in  *)
(* the source; here it ranges over the integer sample HookPositions.       *)
(* Block.id (Date.now()) and Block.color are not modelled.                 *)
(*                                                                         *)
(* Spec does not track time: its frames keep frameTime at 0 and sample the *)
(* hook position.  SpecHook tracks the frame timestamps and computes the   *)
(* hook position from them; SpecStars builds the stacks that calculateStars*)
(* rates.                                                                  *)
(***************************************************************************)
EXTENDS Integers, Sequences, FiniteSets, TLC

VARIABLES
    gameState,          \* GameState
    currentLevelIdx,    \* index into LEVELS
    blocks,             \* the stack, bottom first
    hookX,              \* hook position, percent
    currentBlockWidth,  \* width of the block hanging on the hook
    score,
    combo,
    feedback,           \* "none" | "perfect" | "good"
    cameraY,
    startTimeRef,       \* Undefined, or <<t>>: the timestamp t of a frame
    frameTime,          \* the timestamp of the last animation frame
    isDroppingRef,      \* the debounce flag
    timers,             \* pending 50 ms setTimeout callbacks of nextLevel, FIFO
    compatMouse         \* a touch whose compatibility mousedown is still to come

vars == <<gameState, currentLevelIdx, blocks, hookX, currentBlockWidth, score,
          combo, feedback, cameraY, startTimeRef, frameTime, isDroppingRef,
          timers, compatMouse>>

\* everything handleDrop may write
dropVars == <<gameState, blocks, currentBlockWidth, score, combo, feedback, cameraY>>

----------------------------------------------------------------------------
\* Bounds of the model

\* at most this many nextLevel timeouts are pending at once
MaxTimers == 2

\* SpecHook follows the frames up to this timestamp
MaxFrameTime == 8

\* the sampled hook positions (the source's hookX is any float in [5, 95])
HookPositions == {7, 47, 50, 53, 89, 93, 94}

----------------------------------------------------------------------------
\* Constants of the program

MENU == "MENU"
PLAYING == "PLAYING"
LEVEL_COMPLETE == "LEVEL_COMPLETE"
GAME_OVER == "GAME_OVER"

GameState == {MENU, PLAYING, LEVEL_COMPLETE, GAME_OVER}

BLOCK_HEIGHT == 40
PERFECT_TOLERANCE == 3
MAX_LEVELS == 10

Max(a, b) == IF a >= b THEN a ELSE b

Abs(n) == IF n < 0 THEN -n ELSE n

\* startTimeRef.current before animate has set it
Undefined == <<>>

\* LEVELS[i], i = 0 .. MAX_LEVELS - 1
LevelAt(i) ==
    LET levelNum == i + 1
    IN  [levelNumber  |-> levelNum,
         targetBlocks |-> 5 + (levelNum * 2),
         initialWidth |-> Max(20, 50 - (levelNum * 2)),
         baseSpeedTenths |-> 10 + (levelNum * 2)]   \* baseSpeed * 10

LevelsLength == MAX_LEVELS

currentLevelConfig == LevelAt(currentLevelIdx)

----------------------------------------------------------------------------
Init ==
    /\ gameState = MENU
    /\ currentLevelIdx = 0
    /\ blocks = <<>>
    /\ hookX = 50
    /\ currentBlockWidth = 0
    /\ score = 0
    /\ combo = 0
    /\ feedback = "none"
    /\ cameraY = 0
    /\ startTimeRef = Undefined
    /\ frameTime = 0
    /\ isDroppingRef = FALSE
    /\ timers = <<>>
    /\ compatMouse = FALSE

----------------------------------------------------------------------------
\* animate / updateHookPosition: the animation frame with timestamp time, in
\* which the swing formula gives x
AnimateAt(time, x) ==
    /\ frameTime' = time
    /\ startTimeRef' = IF startTimeRef = Undefined THEN <<time>> ELSE startTimeRef
    /\ IF gameState # PLAYING
          THEN hookX' = hookX
          ELSE hookX' = x
    /\ UNCHANGED <<gameState, currentLevelIdx, blocks, currentBlockWidth, score,
                   combo, feedback, cameraY, isDroppingRef, timers, compatMouse>>

\* one animation frame, its timestamp not tracked and the hook position sampled
Animate == \E x \in HookPositions : AnimateAt(frameTime, x)

\* the session reset shared by startGame and the timeout of nextLevel
\* a reset that leaves the combo counter of the last session
ResetSessionKeepsCombo(width) ==
    /\ blocks' = <<>>
    /\ score' = 0
    /\ combo' = combo
    /\ cameraY' = 0
    /\ currentBlockWidth' = width
    /\ gameState' = PLAYING

ResetSession(width) ==
    /\ blocks' = <<>>
    /\ score' = 0
    /\ combo' = 0
    /\ cameraY' = 0
    /\ currentBlockWidth' = width
    /\ gameState' = PLAYING

\* startGame, run with the level config its closure holds
\* a restart that keeps the width of the last block
startGameKeepsWidth(config) ==
    /\ ResetSession(currentBlockWidth)
    /\ startTimeRef' = Undefined

startGame(config) ==
    /\ ResetSession(config.initialWidth)
    /\ startTimeRef' = Undefined

\* the "play" button of the main menu, shown while gameState is MENU
StartClick ==
    /\ gameState = MENU
    /\ startGame(currentLevelConfig)
    /\ UNCHANGED <<currentLevelIdx, hookX, feedback, frameTime, isDroppingRef,
                   timers, compatMouse>>

\* retryLevel: the retry buttons of the level-complete and game-over screens
retryLevel ==
    /\ gameState \in {LEVEL_COMPLETE, GAME_OVER}
    /\ startGame(currentLevelConfig)
    /\ UNCHANGED <<currentLevelIdx, hookX, feedback, frameTime, isDroppingRef,
                   timers, compatMouse>>

\* the timeout callbacks nextLevel schedules; idx is the currentLevelIdx the
\* closure captured
ResetTimer(idx) == [fn |-> "reset", idx |-> idx]

StartGameTimer(idx) == [fn |-> "startGame", idx |-> idx]

\* an index above the last level passes as having a next level
HasNextLevelOffByOne(idx) == idx < LevelsLength

HasNextLevel(idx) == idx < LevelsLength - 1

\* nextLevel: the "next level" button of the level-complete screen
nextLevel ==
    /\ gameState = LEVEL_COMPLETE
    /\ Len(timers) < MaxTimers
    /\ IF HasNextLevel(currentLevelIdx)
          THEN /\ currentLevelIdx' = currentLevelIdx + 1
               /\ timers' = Append(timers, ResetTimer(currentLevelIdx))
          ELSE /\ currentLevelIdx' = 0
               /\ timers' = Append(timers, StartGameTimer(currentLevelIdx))
    /\ UNCHANGED <<gameState, blocks, hookX, currentBlockWidth, score, combo,
                   feedback, cameraY, startTimeRef, frameTime, isDroppingRef,
                   compatMouse>>

\* the width the oldest pending timeout will set
TimerWidth(t) ==
    IF t.fn = "reset"
       THEN LevelAt(t.idx + 1).initialWidth
       ELSE LevelAt(t.idx).initialWidth

\* the oldest pending timeout of nextLevel runs (all have the same delay)
TimerFire ==
    /\ timers # <<>>
    /\ LET t == Head(timers)
       IN  IF t.fn = "reset"
              THEN /\ ResetSession(TimerWidth(t))
                   /\ startTimeRef' = startTimeRef
              ELSE startGame(LevelAt(t.idx))
    /\ timers' = Tail(timers)
    /\ UNCHANGED <<currentLevelIdx, hookX, feedback, frameTime, isDroppingRef,
                   compatMouse>>

\* a menu button on every screen but the main menu
MenuClickFromAnyScreen ==
    /\ gameState \in {PLAYING, LEVEL_COMPLETE, GAME_OVER}
    /\ gameState' = MENU
    /\ UNCHANGED <<currentLevelIdx, blocks, hookX, currentBlockWidth, score,
                   combo, feedback, cameraY, startTimeRef, frameTime,
                   isDroppingRef, timers, compatMouse>>

\* the "menu" button of the game-over screen
MenuClick ==
    /\ gameState = GAME_OVER
    /\ gameState' = MENU
    /\ UNCHANGED <<currentLevelIdx, blocks, hookX, currentBlockWidth, score,
                   combo, feedback, cameraY, startTimeRef, frameTime,
                   isDroppingRef, timers, compatMouse>>

----------------------------------------------------------------------------
\* handleDrop

previousBlock ==
    IF Len(blocks) > 0
       THEN [x |-> blocks[Len(blocks)].x, width |-> blocks[Len(blocks)].width]
       ELSE [x |-> 50, width |-> currentLevelConfig.initialWidth + 20]

absDiff == Abs(hookX - previousBlock.x)

IsTotalMiss(ad, width) == ad > width

IsPerfectHit(ad) == ad <= PERFECT_TOLERANCE

\* a bonus scaled by the combo after the increment
PerfectScorePostIncrement(s, c) == s + 20 + ((c + 1) * 5)

PerfectScore(s, c) == s + 20 + (c * 5)

GoodScore(s) == s + 10

\* a trim by half the offset
TrimmedWidthHalf(width, penalty) == width - (penalty \div 2)

TrimmedWidth(width, penalty) == width - penalty

\* a minimum width of 4 instead of 5
TooSmallBelowFour(newWidth) == newWidth < 4

TooSmall(newWidth) == newWidth < 5

endGame(success) ==
    gameState' = IF success THEN LEVEL_COMPLETE ELSE GAME_OVER

NewBlock(width, placedX, isPerfect) ==
    [width |-> width, x |-> placedX, y |-> Len(blocks), isPerfect |-> isPerfect]

\* the level completes one block late
ReachedTargetLate(length, targetBlocks) == length > targetBlocks

ReachedTarget(length, targetBlocks) == length >= targetBlocks

\* the tail of handleDrop: append the block, then level-complete check and camera
PlaceBlock(newBlock) ==
    LET newBlocks == Append(blocks, newBlock)
    IN  /\ blocks' = newBlocks
        /\ currentBlockWidth' = newBlock.width
        /\ IF ReachedTarget(Len(newBlocks), currentLevelConfig.targetBlocks)
              THEN /\ endGame(TRUE)
                   /\ cameraY' = cameraY
              ELSE /\ gameState' = gameState
                   /\ cameraY' = IF Len(newBlocks) > 3
                                    THEN cameraY + BLOCK_HEIGHT
                                    ELSE cameraY

\* the guard without the test of gameState
DropIgnoredOnlyWhileDropping == isDroppingRef

\* the early return of handleDrop
DropIgnored == gameState # PLAYING \/ isDroppingRef

handleDrop ==
    IF DropIgnored
       THEN UNCHANGED dropVars
       ELSE IF IsTotalMiss(absDiff, currentBlockWidth)
               THEN /\ endGame(FALSE)
                    /\ UNCHANGED <<blocks, currentBlockWidth, score, combo,
                                   feedback, cameraY>>
               ELSE IF IsPerfectHit(absDiff)
                       THEN /\ combo' = combo + 1
                            /\ score' = PerfectScore(score, combo)
                            /\ feedback' = "perfect"
                            /\ PlaceBlock(NewBlock(currentBlockWidth,
                                                   previousBlock.x, TRUE))
                       ELSE LET newWidth == TrimmedWidth(currentBlockWidth, absDiff)
                            IN  IF TooSmall(newWidth)
                                   THEN /\ combo' = 0
                                        /\ endGame(FALSE)
                                        /\ UNCHANGED <<blocks, currentBlockWidth,
                                                       score, feedback, cameraY>>
                                   ELSE /\ combo' = 0
                                        /\ score' = GoodScore(score)
                                        /\ feedback' = "good"
                                        /\ PlaceBlock(NewBlock(newWidth, hookX,
                                                               FALSE))

\* onMouseDown of the root element, from a mouse
MouseDown ==
    /\ handleDrop
    /\ UNCHANGED <<currentLevelIdx, hookX, startTimeRef, frameTime,
                   isDroppingRef, timers, compatMouse>>

\* onTouchStart of the root element; the browser will follow the touch with a
\* compatibility mousedown, since no handler calls preventDefault
TouchStart ==
    /\ handleDrop
    /\ compatMouse' = TRUE
    /\ UNCHANGED <<currentLevelIdx, hookX, startTimeRef, frameTime,
                   isDroppingRef, timers>>

\* onMouseDown of the root element, from the compatibility mousedown of a touch
CompatMouseDown ==
    /\ compatMouse
    /\ handleDrop
    /\ compatMouse' = FALSE
    /\ UNCHANGED <<currentLevelIdx, hookX, startTimeRef, frameTime,
                   isDroppingRef, timers>>

\* setTimeout(() => setFeedback(null), 800): while a feedback is shown, a clear
\* timeout is pending and may run at any time
ClearFeedback ==
    /\ feedback # "none"
    /\ feedback' = "none"
    /\ UNCHANGED <<gameState, currentLevelIdx, blocks, hookX, currentBlockWidth,
                   score, combo, cameraY, startTimeRef, frameTime,
                   isDroppingRef, timers, compatMouse>>

----------------------------------------------------------------------------
Next ==
    \/ Animate
    \/ StartClick
    \/ retryLevel
    \/ nextLevel
    \/ TimerFire
    \/ MenuClick
    \/ MouseDown
    \/ TouchStart
    \/ CompatMouseDown
    \/ ClearFeedback

Spec == Init /\ [][Next]_vars

----------------------------------------------------------------------------
\* updateHookPosition, with the frame timestamps tracked
\*
\* One unit of frameTime is a quarter period of the swing of level 1 with no
\* block placed: pi / (2 * 1.2 * 0.002) ms.  The phase time * speed is counted
\* in quarter turns, where the sine is 0, 1, 0, -1.

\* speed = baseSpeed * (1 + blocksPlaced * 0.05) * 0.002, in units of 0.00001
SpeedUnits(level, blocksPlaced) == level.baseSpeedTenths * (20 + blocksPlaced)

\* time * speed in quarter turns; level 1 with no block has 12 * 20 speed units
QuarterTurns(time, level, blocksPlaced) ==
    (time * SpeedUnits(level, blocksPlaced)) \div (12 * 20)

\* Math.sin at a whole number of quarter turns
SinQuarter(q) ==
    CASE q % 4 = 0 -> 0
      [] q % 4 = 1 -> 1
      [] q % 4 = 2 -> 0
      [] q % 4 = 3 -> -1

\* x = 50 + Math.sin(time * speed) * range, range = 45
HookPosition(time, level, blocksPlaced) ==
    50 + (SinQuarter(QuarterTurns(time, level, blocksPlaced)) * 45)

\* the next animation frame, one time unit after the last
HookFrame ==
    /\ frameTime < MaxFrameTime
    /\ AnimateAt(frameTime + 1,
                 HookPosition(frameTime + 1, currentLevelConfig, Len(blocks)))

\* a mouse press while the hook is at an end of its swing (a miss on level 1)
HookDrop ==
    /\ hookX # 50
    /\ MouseDown

HookNext ==
    \/ HookFrame
    \/ StartClick
    \/ HookDrop
    \/ retryLevel
    \/ MenuClick

SpecHook == Init /\ [][HookNext]_vars

----------------------------------------------------------------------------
\* calculateStars

\* the comment's "> 60%": a ratio strictly above the threshold
RatioAbove(count, length, tenths) ==
    length > 0 /\ count * 10 > tenths * length

\* count / length >= tenths / 10; 0 / 0 is NaN, which is >= nothing
RatioAtLeast(count, length, tenths) ==
    length > 0 /\ count * 10 >= tenths * length

calculateStars ==
    IF gameState = GAME_OVER
       THEN 0
       ELSE LET perfectCount == Len(SelectSeq(blocks, LAMBDA b : b.isPerfect))
            IN  IF RatioAtLeast(perfectCount, Len(blocks), 6)
                   THEN 3
                   ELSE IF RatioAtLeast(perfectCount, Len(blocks), 3)
                           THEN 2
                           ELSE 1

\* The sessions calculateStars rates: a session just started on one of
\* StarsLevels, played with the hook on StarsHookPositions, where every drop is
\* Perfect (offset 0), Good (offset 4) or a Miss (the hook at 94).
StarsLevels == {0, 4}

StarsHookPositions == {50, 54, 94}

StarsInit ==
    /\ gameState = PLAYING
    /\ currentLevelIdx \in StarsLevels
    /\ blocks = <<>>
    /\ hookX = 50
    /\ currentBlockWidth = LevelAt(currentLevelIdx).initialWidth
    /\ score = 0
    /\ combo = 0
    /\ feedback = "none"
    /\ cameraY = 0
    /\ startTimeRef = Undefined
    /\ frameTime = 0
    /\ isDroppingRef = FALSE
    /\ timers = <<>>
    /\ compatMouse = FALSE

StarsFrame == \E x \in StarsHookPositions : AnimateAt(frameTime, x)

StarsNext ==
    \/ StarsFrame
    \/ MouseDown

SpecStars == StarsInit /\ [][StarsNext]_vars

----------------------------------------------------------------------------
\* Vocabulary of the properties

\* a step in which handleDrop runs
DropStep == MouseDown \/ TouchStart \/ CompatMouseDown

\* the center the drop is measured against
PreviousCenter == IF blocks = <<>> THEN 50 ELSE blocks[Len(blocks)].x

DropOffset == Abs(hookX - PreviousCenter)

\* exactly one block was appended, with this width, center and perfect flag
Appended(width, centerX, isPerfect) ==
    /\ Len(blocks') = Len(blocks) + 1
    /\ SubSeq(blocks', 1, Len(blocks)) = blocks
    /\ blocks'[Len(blocks')].width = width
    /\ blocks'[Len(blocks')].x = centerX
    /\ blocks'[Len(blocks')].isPerfect = isPerfect

TopBlock == blocks[Len(blocks)]

----------------------------------------------------------------------------
\* C1: a drop evaluated while Playing with offset <= 3 from the previous center
\* (50 on an empty stack) is Perfect: one block is appended with the pending
\* width, centered on the previous center; the pending width is unchanged, the
\* score grows by 20 + 5 * (combo before the drop) and combo grows by 1.
C1_PerfectDrop ==
    [][ (DropStep /\ gameState = PLAYING /\ DropOffset <= 3)
        => /\ Appended(currentBlockWidth, PreviousCenter, TRUE)
           /\ currentBlockWidth' = currentBlockWidth
           /\ score' = score + 20 + (5 * combo)
           /\ combo' = combo + 1 ]_vars

\* two perfect drops in a row, the second one 3 off center and snapped to 50
C1_Witness ==
    /\ gameState = PLAYING
    /\ Len(blocks) = 2
    /\ blocks[1].isPerfect /\ blocks[2].isPerfect
    /\ blocks[2].x = 50 /\ blocks[2].width = 48
    /\ combo = 2 /\ score = 45
    /\ hookX = 53

\* C2: a drop evaluated while Playing with 3 < offset <= pending width and
\* pending width - offset >= 5 is Good: one block is appended with width
\* pending width - offset, centered at hookX; the pending width becomes that
\* width, the score grows by 10 and combo becomes 0.
C2_GoodDrop ==
    [][ (/\ DropStep
         /\ gameState = PLAYING
         /\ 3 < DropOffset
         /\ DropOffset <= currentBlockWidth
         /\ currentBlockWidth - DropOffset >= 5)
        => /\ Appended(currentBlockWidth - DropOffset, hookX, FALSE)
           /\ currentBlockWidth' = currentBlockWidth - DropOffset
           /\ score' = score + 10
           /\ combo' = 0 ]_vars

\* a perfect drop, then a good one 39 off center: trimmed to 9, placed at 89
C2_Witness ==
    /\ gameState = PLAYING
    /\ Len(blocks) = 2
    /\ blocks[1].isPerfect /\ ~blocks[2].isPerfect
    /\ blocks[2].x = 89 /\ blocks[2].width = 9
    /\ currentBlockWidth = 9
    /\ combo = 0 /\ score = 30

\* C3: a drop evaluated while Playing that is a Miss (offset > pending width,
\* or offset > 3 and pending width - offset < 5) appends no block, leaves
\* score and pending width unchanged and moves gameState to GameOver.
C3_MissDrop ==
    [][ (/\ DropStep
         /\ gameState = PLAYING
         /\ \/ DropOffset > currentBlockWidth
            \/ DropOffset > 3 /\ currentBlockWidth - DropOffset < 5)
        => /\ blocks' = blocks
           /\ score' = score
           /\ currentBlockWidth' = currentBlockWidth
           /\ gameState' = GAME_OVER ]_vars

\* game over by a trim below 5: the hook is 44 off the only block, which would
\* leave a width of 4
C3_Witness ==
    /\ gameState = GAME_OVER
    /\ Len(blocks) = 1
    /\ TopBlock.isPerfect /\ TopBlock.x = 50
    /\ currentBlockWidth = 48
    /\ hookX = 94
    /\ score = 20

\* C4: combo is 0 right after any drop whose outcome is Good or Miss, the
\* total miss (offset > pending width) included.
C4_ComboResets ==
    [][ (/\ DropStep
         /\ gameState = PLAYING
         /\ DropOffset > 3 \/ DropOffset > currentBlockWidth)
        => combo' = 0 ]_vars

\* C5: every step between two Playing states leaves the score at least as
\* high as it was.
C5_ScoreMonotone ==
    [][ (gameState = PLAYING /\ gameState' = PLAYING) => score' >= score ]_vars

\* C6: the pending width is the top block's width when the stack is non-empty,
\* and the initialWidth of the level selected by currentLevelIdx when it is
\* empty.
C6_PendingWidth ==
    currentBlockWidth = IF blocks # <<>>
                           THEN TopBlock.width
                           ELSE currentLevelConfig.initialWidth

\* C7: the reset that AdvanceLevel at the last level leads to enters Playing
\* with level 0 selected and level 0's config: empty stack, score 0, combo 0,
\* pending width 48.
C7_WrapResets ==
    [][ (timers # <<>> /\ Head(timers).fn = "startGame" /\ timers' = Tail(timers))
        => /\ gameState' = PLAYING
           /\ currentLevelIdx' = 0
           /\ blocks' = <<>>
           /\ score' = 0
           /\ combo' = 0
           /\ currentBlockWidth' = 48 ]_vars

\* C8: the reset that AdvanceLevel at a level other than the last leads to
\* enters Playing one level above the level AdvanceLevel was issued at, with
\* the session reset to the config of the level now selected, whatever was
\* issued in between.
C8_AdvanceResets ==
    [][ (timers # <<>> /\ Head(timers).fn = "reset" /\ timers' = Tail(timers))
        => /\ gameState' = PLAYING
           /\ currentLevelIdx' = Head(timers).idx + 1
           /\ blocks' = <<>>
           /\ score' = 0
           /\ combo' = 0
           /\ currentBlockWidth' = LevelAt(currentLevelIdx').initialWidth ]_vars

\* C9: there is no state in which AdvanceLevel has already moved
\* currentLevelIdx while the session is not yet reset (still LevelComplete,
\* with the stack of the level just completed).
C9_AtomicAdvance ==
    ~ (/\ gameState = LEVEL_COMPLETE
       /\ timers # <<>>
       /\ currentLevelIdx # Head(timers).idx
       /\ blocks # <<>>)

\* C10: the second trigger of one input (the compatibility mousedown of a
\* touch) is coalesced with the first: it appends no block and leaves score
\* and combo alone.
C10_Coalesced ==
    [][ CompatMouseDown
        => blocks' = blocks /\ score' = score /\ combo' = combo ]_vars

\* a drop that places a block: neither a total miss nor a trim below 5
PlacingDrop ==
    /\ DropStep
    /\ gameState = PLAYING
    /\ DropOffset <= currentBlockWidth
    /\ DropOffset <= 3 \/ currentBlockWidth - DropOffset >= 5

\* C11: after a drop that places a block while Playing, gameState is
\* LevelComplete if the new stack length is >= the current level's
\* targetBlocks and Playing otherwise, whether the drop was Perfect or Good.
C11_CompleteAtTarget ==
    [][ PlacingDrop
        => gameState' = IF Len(blocks') >= LevelAt(currentLevelIdx).targetBlocks
                           THEN LEVEL_COMPLETE
                           ELSE PLAYING ]_vars

\* level 1 completed by a Good drop as its seventh block
C11_Witness ==
    /\ gameState = LEVEL_COMPLETE
    /\ currentLevelIdx = 0
    /\ Len(blocks) = 7
    /\ ~TopBlock.isPerfect
    /\ timers = <<>>

\* C12: gameState changes only by the listed transitions, each by its own
\* command in its own source state: Menu to Playing on Start; Playing to
\* LevelComplete or GameOver on a drop; LevelComplete to Playing on
\* AdvanceLevel (the reset it leads to) or RetryLevel; GameOver to Playing on
\* RetryLevel; Playing, LevelComplete or GameOver to Menu on ReturnToMenu.
C12_ListedTransitions ==
    [][ gameState' # gameState
        => \/ gameState = MENU /\ gameState' = PLAYING /\ StartClick
           \/ /\ gameState = PLAYING
              /\ gameState' \in {LEVEL_COMPLETE, GAME_OVER}
              /\ DropStep
           \/ /\ gameState = LEVEL_COMPLETE
              /\ gameState' = PLAYING
              /\ retryLevel \/ TimerFire
           \/ gameState = GAME_OVER /\ gameState' = PLAYING /\ retryLevel
           \/ /\ gameState \in {PLAYING, LEVEL_COMPLETE, GAME_OVER}
              /\ gameState' = MENU
              /\ MenuClick ]_vars

\* C13: ReturnToMenu is accepted in each of Playing, LevelComplete and
\* GameOver.
C13_MenuFromEveryScreen ==
    gameState \in {PLAYING, LEVEL_COMPLETE, GAME_OVER} => ENABLED MenuClick

\* C13, amended: ReturnToMenu is accepted in GameOver and only there, and it
\* moves gameState to Menu; no step enters Menu from Playing or LevelComplete.
C13_MenuFromGameOver ==
    /\ [](ENABLED MenuClick <=> gameState = GAME_OVER)
    /\ [][ (gameState # MENU /\ gameState' = MENU)
           => gameState = GAME_OVER /\ MenuClick ]_vars
    /\ [][ MenuClick => gameState' = MENU ]_vars

\* the menu, entered from the game-over screen of a session
C13_Witness ==
    /\ gameState = MENU
    /\ currentBlockWidth > 0
    /\ blocks # <<>>

\* C14: a drop trigger while gameState is Menu, LevelComplete or GameOver
\* changes none of gameState, currentLevelIdx, blocks, currentBlockWidth,
\* score and combo.
C14_DropIgnored ==
    [][ (DropStep /\ gameState # PLAYING)
        => UNCHANGED <<gameState, currentLevelIdx, blocks, currentBlockWidth,
                       score, combo>> ]_vars

\* a touch on the main menu before the first Start: nothing was placed
C14_Witness ==
    /\ gameState = MENU
    /\ compatMouse
    /\ currentBlockWidth = 0
    /\ blocks = <<>>

\* C15: RetryLevel in LevelComplete or GameOver enters Playing with
\* currentLevelIdx unchanged and the session reset with the current level's
\* config: empty stack, score 0, combo 0, pending width its initialWidth.
C15_RetryResets ==
    [][ (retryLevel /\ gameState \in {LEVEL_COMPLETE, GAME_OVER})
        => /\ gameState' = PLAYING
           /\ currentLevelIdx' = currentLevelIdx
           /\ blocks' = <<>>
           /\ score' = 0
           /\ combo' = 0
           /\ currentBlockWidth' = LevelAt(currentLevelIdx).initialWidth ]_vars

\* RetryLevel on the level-complete screen of level 1 after AdvanceLevel:
\* Playing on level 2 with its width 46, the timeout still pending
C15_Witness ==
    /\ gameState = PLAYING
    /\ timers = <<ResetTimer(0)>>
    /\ currentLevelIdx = 1
    /\ blocks = <<>>
    /\ currentBlockWidth = 46
    /\ score = 0 /\ combo = 0
    /\ startTimeRef = Undefined
    /\ hookX # 50

\* C17: in LevelComplete the stack holds at least the targetBlocks of the
\* level selected by currentLevelIdx, and targetBlocks >= 7, so the divisor of
\* the star ratio is not 0.
C17_CompleteStackLength ==
    gameState = LEVEL_COMPLETE
    => /\ Len(blocks) >= LevelAt(currentLevelIdx).targetBlocks
       /\ LevelAt(currentLevelIdx).targetBlocks >= 7

\* C18: currentLevelIdx is a valid index of LEVELS in every reachable state.
C18_LevelIndexValid ==
    /\ 0 <= currentLevelIdx
    /\ currentLevelIdx <= LevelsLength - 1

\* AdvanceLevel was issued at the last level and wrapped the index to 0
C18_Witness ==
    /\ currentLevelIdx = 0
    /\ gameState = LEVEL_COMPLETE
    /\ timers = <<StartGameTimer(LevelsLength - 1)>>
    /\ Len(blocks) = LevelAt(LevelsLength - 1).targetBlocks

\* C20: every block of the stack has width >= 5 and <= the initialWidth of
\* the level it was placed in, and widths do not increase from the bottom of
\* the stack to the top.  (currentLevelIdx moves only on the level-complete
\* screen, where it leaves a timeout pending: in every other state the
\* blocks of the stack were placed in the level currentLevelIdx selects.)
C20_BlockWidths ==
    /\ \A i \in 1..Len(blocks) : blocks[i].width >= 5
    /\ \A i \in 1..(Len(blocks) - 1) : blocks[i + 1].width <= blocks[i].width
    /\ (gameState # LEVEL_COMPLETE \/ timers = <<>>)
       => \A i \in 1..Len(blocks) :
              blocks[i].width <= LevelAt(currentLevelIdx).initialWidth

\* the number of perfect blocks of the stack, whatever their order
PerfectBlocks == Cardinality({i \in 1..Len(blocks) : blocks[i].isPerfect})

C19_ElapsedTimeOnly ==
    (gameState = PLAYING /\ startTimeRef # Undefined)
    => hookX = HookPosition(frameTime - startTimeRef[1], currentLevelConfig,
                            Len(blocks))

\* the number of consecutive perfect blocks at the top of the stack
PerfectRun ==
    Cardinality({i \in 1..Len(blocks) :
                    \A j \in i..Len(blocks) : blocks[j].isPerfect})

\* C21: while Playing or LevelComplete, combo is the number of consecutive
\* perfect blocks at the top of the stack (0 when the stack is empty or its
\* top block is not perfect), so combo is at most the stack length.
C21_ComboIsPerfectRun ==
    gameState \in {PLAYING, LEVEL_COMPLETE}
    => /\ combo = PerfectRun
       /\ combo <= Len(blocks)
       /\ (blocks = <<>> \/ ~TopBlock.isPerfect) => combo = 0

\* a perfect block, a good one, then two perfect ones: three perfect blocks in
\* the stack, a combo of 2
C21_Witness ==
    /\ gameState = PLAYING
    /\ Len(blocks) = 4
    /\ blocks[1].isPerfect /\ ~blocks[2].isPerfect
    /\ blocks[3].isPerfect /\ blocks[4].isPerfect
    /\ combo = 2

====
